---- MODULE Spec2Model ----
(***************************************************************************)
(* Model of the hallucination-detection pipeline of the repository:        *)
(*   utils/api_interaction.py     generate_text, check_factuality          *)
(*   utils/similarity_calculation.py  calculate_similarity, ...            *)
(*   utils/knowledge_base.py      KnowledgeBase.check_conflict             *)
(*   utils/hallucination_ensemble.py  HallucinationDetector                *)
(*   reverse_verify.py            reverse_questions, verify_answer         *)
(*                                                                         *)
(* Texts are sequences of characters.  Real numbers in [0,1] are integers  *)
(* in units of 1/Scale; a quotient that the code leaves as a float is kept *)
(* as an exact fraction [num, den].  Floating-point rounding is not        *)
(* modelled.                                                               *)
(***************************************************************************)
EXTENDS Integers, Sequences, FiniteSets, TLC

\* 1.0 in the fixed-point representation; divisible by 1..6, 10 and 100.
Scale == 6 * 100

\* ------------------------------------------------------------------------
\* Bounds of the model
\* ------------------------------------------------------------------------
\* longest text drawn for a pure-function argument
MaxLen == 3
\* largest generate_times argument of reverse_questions
MaxGenerateTimes == 3
\* most entries in a knowledge store
MaxStore == 2
\* largest retries argument of generate_text
MaxRetries == 3
\* largest similarity handed to the ensemble, in tenths
MaxSimTenths == 11
\* largest factuality score handed to the ensemble
MaxFactuality == 11

\* ------------------------------------------------------------------------
\* Texts
\* ------------------------------------------------------------------------
\* characters of user texts: a lower-case letter, an upper-case letter, a blank
Alphabet == {"a", "B", " "}

RECURSIVE TextsOfLen(_)
TextsOfLen(n) ==
    IF n = 0 THEN {<<>>}
    ELSE {Append(t, c) : t \in TextsOfLen(n - 1), c \in Alphabet}

TextsUpTo(n) == UNION {TextsOfLen(k) : k \in 0..n}

\* Optional values (Python None versus a value)
None == [some |-> FALSE]
Some(v) == [some |-> TRUE, val |-> v]

\* str.lower() on one character
LowerChar(c) == IF c = "B" THEN "b" ELSE c

\* str.lower()
Lower(t) == [k \in 1..Len(t) |-> LowerChar(t[k])]

\* regular expression class \w
IsWordChar(c) == c \notin {" ", ":"}

\* Python's "s in t" on strings
IsSubstr(s, t) ==
    \E k \in 0..(Len(t) - Len(s)) : SubSeq(t, k + 1, k + Len(s)) = s

\* last position of the run of \w characters that holds position p
RECURSIVE RunEnd(_, _)
RunEnd(t, p) ==
    IF p < Len(t) /\ IsWordChar(t[p + 1]) THEN RunEnd(t, p + 1) ELSE p

\* positions <<first, last>> of the maximal runs of \w characters: re.findall(r'\w+', t)
WordRuns(t) ==
    {<<p, RunEnd(t, p)>> :
        p \in {k \in 1..Len(t) : IsWordChar(t[k]) /\ (k = 1 \/ ~IsWordChar(t[k - 1]))}}

\* set(re.findall(r'\w+', t))
WordSet(t) == {SubSeq(t, r[1], r[2]) : r \in WordRuns(t)}

\* ------------------------------------------------------------------------
\* KnowledgeBase (utils/knowledge_base.py)
\* ------------------------------------------------------------------------
\* A store is the dict self.knowledge in insertion order: a sequence of
\* <<key, value>> pairs with distinct keys.

\* KnowledgeBase._get_synonyms
GetSynonyms(value) == <<value>>

\* the test of line 127: the entry contradicts the answer
EntryConflicts(value, ans) ==
    /\ ~IsSubstr(value, ans)
    /\ ~(\E s \in 1..Len(GetSynonyms(value)) : IsSubstr(GetSynonyms(value)[s], ans))

\* the info string of line 128, kept as the pair it is formatted from
ConflictInfo(key, value) == Some(<<key, value>>)

\* check_conflict gone wrong: the scan ends at the first entry whose key
\* occurs in the question, whether or not that entry conflicts
CheckConflictFrom_FirstKeyOnly(store, k, q, ans) ==
    LET hits == {m \in k..Len(store) : IsSubstr(store[m][1], q)}
        first == CHOOSE m \in hits : \A n \in hits : m <= n
    IN IF hits # {} /\ EntryConflicts(store[first][2], ans)
       THEN [is_conflict |-> TRUE,
             info |-> ConflictInfo(store[first][1], store[first][2])]
       ELSE [is_conflict |-> FALSE, info |-> None]

\* the loop of check_conflict from entry k on
RECURSIVE CheckConflictFrom(_, _, _, _)
CheckConflictFrom(store, k, q, ans) ==
    IF k > Len(store) THEN [is_conflict |-> FALSE, info |-> None]
    ELSE IF IsSubstr(store[k][1], q) /\ EntryConflicts(store[k][2], ans)
         THEN [is_conflict |-> TRUE, info |-> ConflictInfo(store[k][1], store[k][2])]
         ELSE CheckConflictFrom(store, k + 1, q, ans)

\* KnowledgeBase.check_conflict; info None stands for the empty string
CheckConflict(store, q, ans) == CheckConflictFrom(store, 1, q, ans)

\* ------------------------------------------------------------------------
\* Similarity (utils/similarity_calculation.py)
\* ------------------------------------------------------------------------
RECURSIVE SumFn(_, _)
\* sum of f[x] over x in S
SumFn(f, S) ==
    IF S = {} THEN 0
    ELSE LET x == CHOOSE y \in S : TRUE IN f[x] + SumFn(f, S \ {x})

\* TfidfVectorizer's analyzer on ' '.join(jieba.cut(t)): lower-cased tokens of
\* two or more \w characters (token_pattern (?u)\b\w\w+\b).  jieba keeps a
\* run of letters whole, so the tokens are the word runs of the text.
Vocabulary(t) == {w \in WordSet(Lower(t)) : Len(w) >= 2}

\* term frequency of token w in t
TermCount(t, w) ==
    LET low == Lower(t)
    IN Cardinality({r \in WordRuns(low) : SubSeq(low, r[1], r[2]) = w})

\* Square of the smoothed idf of a term found in one of the two documents,
\* (ln(3/2) + 1)^2 = 1.9753..., as the fraction IdfSqNum / IdfSqDen; a term of
\* both documents has idf ln(3/3) + 1 = 1.
IdfSqNum == 79
IdfSqDen == 40

\* squared norm of the tf-idf row of t1 in the corpus {t1, t2}, times IdfSqDen
RowNormSq(t1, t2) ==
    LET V1 == Vocabulary(t1)
        V2 == Vocabulary(t2)
        sq == [w \in V1 |-> TermCount(t1, w) * TermCount(t1, w)]
    IN IdfSqDen * SumFn(sq, V1 \cap V2) + IdfSqNum * SumFn(sq, V1 \ V2)

\* dot product of the two unnormalised tf-idf rows
RowDot(t1, t2) ==
    LET sh == Vocabulary(t1) \cap Vocabulary(t2)
    IN SumFn([w \in sh |-> TermCount(t1, w) * TermCount(t2, w)], sh)

\* cosine_similarity of the two tf-idf rows, rounded down to hundredths and
\* expressed in units of 1/Scale; a zero row gives 0
TfidfCosine(t1, t2) ==
    LET d == RowDot(t1, t2)
        n == RowNormSq(t1, t2) * RowNormSq(t2, t1)
        h == CHOOSE s \in 0..100 :
                 /\ s * s * n <= 100 * 100 * d * d * IdfSqDen * IdfSqDen
                 /\ (s = 100 \/ (s + 1) * (s + 1) * n > 100 * 100 * d * d * IdfSqDen * IdfSqDen)
    IN IF d = 0 THEN 0 ELSE h * (Scale \div 100)

\* fit_transform raises ValueError (empty vocabulary) when neither document
\* holds a token
VectorizerFails(t1, t2) == Vocabulary(t1) \cup Vocabulary(t2) = {}

\* length of the common run of a from i and b from j (0-based), within the windows
RECURSIVE RunLen(_, _, _, _, _, _)
RunLen(a, b, i, j, ahi, bhi) ==
    IF i < ahi /\ j < bhi /\ a[i + 1] = b[j + 1]
    THEN 1 + RunLen(a, b, i + 1, j + 1, ahi, bhi)
    ELSE 0

\* difflib.SequenceMatcher.find_longest_match without junk: the longest block,
\* earliest in a, then earliest in b; <<alo, blo, 0>> when nothing matches
FindLongestMatch(a, b, alo, ahi, blo, bhi) ==
    LET cand == ((alo..(ahi - 1)) \X (blo..(bhi - 1)))
        len == [c \in cand |-> RunLen(a, b, c[1], c[2], ahi, bhi)]
        longest == CHOOSE c \in cand : \A e \in cand : len[e] <= len[c]
        best == CHOOSE c \in cand :
                   /\ len[c] = len[longest]
                   /\ \A e \in cand :
                         len[e] = len[longest]
                             => (c[1] < e[1] \/ (c[1] = e[1] /\ c[2] <= e[2]))
    IN IF cand = {} \/ len[longest] = 0
       THEN <<alo, blo, 0>>
       ELSE <<best[1], best[2], len[best]>>

\* total size of get_matching_blocks over the windows a[alo:ahi], b[blo:bhi]
RECURSIVE MatchTotal(_, _, _, _, _, _)
MatchTotal(a, b, alo, ahi, blo, bhi) ==
    LET m == FindLongestMatch(a, b, alo, ahi, blo, bhi)
        i == m[1]
        j == m[2]
        k == m[3]
    IN IF k = 0 THEN 0
       ELSE k
            + (IF alo < i /\ blo < j THEN MatchTotal(a, b, alo, i, blo, j) ELSE 0)
            + (IF i + k < ahi /\ j + k < bhi
               THEN MatchTotal(a, b, i + k, ahi, j + k, bhi) ELSE 0)

\* the ratio gone wrong: the matches are divided by the shorter length
SequenceRatio_ByShorterLength(a, b) ==
    IF Len(a) + Len(b) = 0 THEN Scale
    ELSE (2 * MatchTotal(a, b, 0, Len(a), 0, Len(b)) * Scale)
             \div (IF Len(a) < Len(b) THEN Len(a) ELSE Len(b))

\* difflib.SequenceMatcher(None, a, b).ratio() = 2*M/T, in units of 1/Scale
SequenceRatio(a, b) ==
    IF Len(a) + Len(b) = 0 THEN Scale
    ELSE (2 * MatchTotal(a, b, 0, Len(a), 0, Len(b)) * Scale) \div (Len(a) + Len(b))

\* calculate_similarity gone wrong: a failed vectorisation gives 0.0
CalculateSimilarity_NoFallback(text1, text2) ==
    IF text1 = <<>> \/ text2 = <<>> THEN 0
    ELSE IF VectorizerFails(text1, text2) THEN 0
    ELSE TfidfCosine(text1, text2)

\* calculate_similarity(text1, text2) with the default method "tfidf"
CalculateSimilarity(text1, text2) ==
    IF text1 = <<>> \/ text2 = <<>> THEN 0
    ELSE IF VectorizerFails(text1, text2) THEN SequenceRatio(text1, text2)
    ELSE TfidfCosine(text1, text2)

\* calculate_multiple_similarities(text1, text_list)
CalculateMultipleSimilarities(text1, text_list) ==
    [k \in 1..Len(text_list) |-> CalculateSimilarity(text1, text_list[k])]

\* argmax gone wrong: the last index of the maximum
ArgMax_LastMaximum(xs) ==
    CHOOSE k \in 1..Len(xs) :
        /\ \A m \in 1..Len(xs) : xs[m] <= xs[k]
        /\ \A m \in (k + 1)..Len(xs) : xs[m] < xs[k]

\* numpy.argmax on a non-empty list: the first index of the maximum (1-based)
ArgMax(xs) ==
    CHOOSE k \in 1..Len(xs) :
        /\ \A m \in 1..Len(xs) : xs[m] <= xs[k]
        /\ \A m \in 1..(k - 1) : xs[m] < xs[k]

\* ------------------------------------------------------------------------
\* HallucinationDetector (utils/hallucination_ensemble.py)
\* ------------------------------------------------------------------------
\* the weights gone wrong: reverse_question raised to 0.6 while topic_drift
\* and factuality are left at their former 0.2 and 0.3
weights_NotRebalanced ==
    [reverse_question   |-> (60 * Scale) \div 100,
     topic_drift        |-> (20 * Scale) \div 100,
     factuality         |-> (30 * Scale) \div 100,
     knowledge_conflict |-> (10 * Scale) \div 100]

\* self.weights of __init__: 0.6, 0.15, 0.15, 0.1
weights ==
    [reverse_question   |-> (60 * Scale) \div 100,
     topic_drift        |-> (15 * Scale) \div 100,
     factuality         |-> (15 * Scale) \div 100,
     knowledge_conflict |-> (10 * Scale) \div 100]

\* min(1.0, max(0.0, x))
Clamp01(x) == IF x < 0 THEN 0 ELSE IF x > Scale THEN Scale ELSE x

\* HallucinationDetector.detect_topic_drift
DetectTopicDrift(q, ans) ==
    LET question_keywords == WordSet(Lower(q))
        keywords_found ==
            Cardinality({kw \in question_keywords :
                            Len(kw) > 2 /\ IsSubstr(kw, Lower(ans))})
    IN IF Cardinality(question_keywords) > 0
       THEN Clamp01(Scale - (Scale * keywords_found) \div Cardinality(question_keywords))
       ELSE Scale \div 2

\* check_knowledge_conflict gone wrong: the middle value of the error branch
\* is returned when there is no conflict
CheckKnowledgeConflict_MiddleValue(store, q, ans) ==
    IF CheckConflict(store, q, ans).is_conflict
    THEN (9 * Scale) \div 10
    ELSE Scale \div 2

\* HallucinationDetector.check_knowledge_conflict; check_conflict does not
\* raise on texts, so the error branch of line 114 is not taken
CheckKnowledgeConflict(store, q, ans) ==
    IF CheckConflict(store, q, ans).is_conflict
    THEN (9 * Scale) \div 10
    ELSE Scale \div 10

\* the dict results of detect_with_all_methods, built entry by entry
DetectionMethods(store, q, ans, sim, fact) ==
    LET r1 == IF sim.some
              THEN "reverse_question" :>
                       [score |-> Scale - sim.val, weight |-> weights.reverse_question]
              ELSE <<>>
        r2 == r1 @@ ("topic_drift" :>
                       [score |-> DetectTopicDrift(q, ans), weight |-> weights.topic_drift])
        r3 == IF fact.some
              THEN r2 @@ ("factuality" :>
                       [score |-> Scale - (fact.val * Scale) \div 10,
                        weight |-> weights.factuality])
              ELSE r2
    IN r3 @@ ("knowledge_conflict" :>
                 [score |-> CheckKnowledgeConflict(store, q, ans),
                  weight |-> weights.knowledge_conflict])

\* aggregation gone wrong: the divisor is the sum of all four weights
TotalWeight_AllFour(results) ==
    weights.reverse_question + weights.topic_drift + weights.factuality
        + weights.knowledge_conflict

\* total_weight of lines 63-65, in units of 1/Scale
TotalWeight(results) ==
    LET total == SumFn([m \in DOMAIN results |-> results[m].weight], DOMAIN results)
    IN IF total = 0 THEN Scale ELSE total

\* the numerator of line 67, in units of 1/Scale^2
WeightedSum(results) ==
    SumFn([m \in DOMAIN results |-> results[m].score * results[m].weight], DOMAIN results)

\* comparison gone wrong: >= in place of >
AboveRiskThreshold_NonStrict(num, den, cfg) == num >= cfg.RISK_THRESHOLD * den

\* the comparison of line 71: weighted_score > RISK_THRESHOLD
AboveRiskThreshold(num, den, cfg) == num > cfg.RISK_THRESHOLD * den

\* special rule gone wrong: the comparison is the wrong way round
BelowCritical_Flipped(sim, cfg) == sim.some /\ sim.val > cfg.SIMILARITY_CRITICAL

\* the special rule of line 74
BelowCritical(sim, cfg) == sim.some /\ sim.val < cfg.SIMILARITY_CRITICAL

\* the ensemble without the special rule of line 74
DetectWithAllMethods_WeightedOnly(store, cfg, q, ans, sim, fact) ==
    LET results == DetectionMethods(store, q, ans, sim, fact)
        num == WeightedSum(results)
        den == TotalWeight(results)
    IN [is_hallucination |-> AboveRiskThreshold(num, den, cfg),
        risk_score       |-> [num |-> num, den |-> den],
        methods          |-> results]

\* HallucinationDetector.detect_with_all_methods; risk_score is the fraction
\* num/den in units of 1/Scale
DetectWithAllMethods(store, cfg, q, ans, sim, fact) ==
    LET results == DetectionMethods(store, q, ans, sim, fact)
        num == WeightedSum(results)
        den == TotalWeight(results)
    IN [is_hallucination |-> AboveRiskThreshold(num, den, cfg) \/ BelowCritical(sim, cfg),
        risk_score       |-> [num |-> num, den |-> den],
        methods          |-> results]

\* ------------------------------------------------------------------------
\* Text generation (utils/api_interaction.py)
\* ------------------------------------------------------------------------
\* config.py: RETRY_ATTEMPTS, RISK_THRESHOLD and SIMILARITY_CRITICAL defaults
RetryAttempts == 3
DefaultRiskThreshold == (5 * Scale) \div 10
DefaultSimilarityCritical == (4 * Scale) \div 10

\* the status codes after which generate_text waits and retries (line 101)
TransientStatus == {429, 500, 502, 503, 504}

\* the status codes the collaborator is made to answer with
Statuses == {200, 401, 429, 503}

\* The messages generate_text returns instead of a generated text (lines 45
\* and 117).  They are non-empty texts; their characters stand apart from
\* those of user texts.
ApiKeyMissingText == <<"x", "x">>
RetriesExhaustedText == <<"y", "y">>

\* the answer verify_answer substitutes at line 136
AnswerFailedText == <<"z", "z">>

\* The labels of the factuality reply (check_factuality): "p","f" stands for
\* the score label, "l","y" for the reason label, ":" for the colon.
ScoreLabel == <<"p", "f">>
ReasonLabel == <<"l", "y">>
Colon == ":"
Digits == {"0", "1", "2", "3", "4", "5", "6", "7", "8", "9"}

DigitVal(c) ==
    CASE c = "0" -> 0 [] c = "1" -> 1 [] c = "2" -> 2 [] c = "3" -> 3 [] c = "4" -> 4
      [] c = "5" -> 5 [] c = "6" -> 6 [] c = "7" -> 7 [] c = "8" -> 8 [] c = "9" -> 9

\* int() of the maximal run of digits of t from position k, continuing acc
RECURSIVE ReadInt(_, _, _)
ReadInt(t, k, acc) ==
    IF k <= Len(t) /\ t[k] \in Digits
    THEN ReadInt(t, k + 1, 10 * acc + DigitVal(t[k]))
    ELSE acc

\* where the group of label, optional colon, group starts when the pattern
\* matches at position k of t; 0 when it does not match there
GroupStart(t, label, k) ==
    IF k + Len(label) - 1 <= Len(t) /\ SubSeq(t, k, k + Len(label) - 1) = label
    THEN IF k + Len(label) <= Len(t) /\ t[k + Len(label)] = Colon
         THEN k + Len(label) + 1
         ELSE k + Len(label)
    ELSE 0

\* re.search(r'<score label><colon>?(\d+)', t): position of the first digit of
\* the leftmost match, 0 without a match
ScoreMatch(t) ==
    LET hit(k) ==
            LET g == GroupStart(t, ScoreLabel, k)
            IN IF g > 0 /\ g <= Len(t) /\ t[g] \in Digits THEN g ELSE 0
        ks == {k \in 1..Len(t) : hit(k) > 0}
    IN IF ks = {} THEN 0 ELSE hit(CHOOSE k \in ks : \A m \in ks : k <= m)

\* str.strip() for blanks
RECURSIVE Strip(_)
Strip(t) ==
    IF t = <<>> THEN t
    ELSE IF Head(t) = " " THEN Strip(Tail(t))
    ELSE IF t[Len(t)] = " " THEN Strip(SubSeq(t, 1, Len(t) - 1))
    ELSE t

\* re.search(r'<reason label><colon>?(.*)', t): start of the group, 0 without a match
ReasonMatch(t) ==
    LET ks == {k \in 1..Len(t) : GroupStart(t, ReasonLabel, k) > 0}
    IN IF ks = {} THEN 0
       ELSE GroupStart(t, ReasonLabel, CHOOSE k \in ks : \A m \in ks : k <= m)

\* check_factuality gone wrong: without a score in the reply the score is 0
CheckFactuality_ZeroWithoutScore(response) ==
    IF response = <<>>
    THEN [score |-> 5, reason |-> [tag |-> "unavailable", text |-> <<>>]]
    ELSE [score  |-> IF ScoreMatch(response) > 0
                     THEN ReadInt(response, ScoreMatch(response), 0)
                     ELSE 0,
          reason |-> IF ReasonMatch(response) > 0
                     THEN [tag |-> "parsed",
                           text |-> Strip(SubSeq(response, ReasonMatch(response), Len(response)))]
                     ELSE [tag |-> "none_given", text |-> <<>>]]

\* check_factuality, from the text generate_text returned
CheckFactuality(response) ==
    IF response = <<>>
    THEN [score |-> 5, reason |-> [tag |-> "unavailable", text |-> <<>>]]
    ELSE [score  |-> IF ScoreMatch(response) > 0
                     THEN ReadInt(response, ScoreMatch(response), 0)
                     ELSE 5,
          reason |-> IF ReasonMatch(response) > 0
                     THEN [tag |-> "parsed",
                           text |-> Strip(SubSeq(response, ReasonMatch(response), Len(response)))]
                     ELSE [tag |-> "none_given", text |-> <<>>]]

\* ------------------------------------------------------------------------
\* reverse_questions (reverse_verify.py)
\* ------------------------------------------------------------------------
\* selection gone wrong: a single candidate is reported as a failure
ReverseResult_SingleIsFailure(q, candidates) ==
    IF Len(candidates) <= 1
    THEN [best |-> None, similarity |-> 0, all |-> <<>>]
    ELSE LET similarities == CalculateMultipleSimilarities(q, candidates)
             best_index == ArgMax(similarities)
         IN [best       |-> Some(candidates[best_index]),
             similarity |-> similarities[best_index],
             all        |-> candidates]

\* lines 96-107: the tuple returned for the candidates collected by the loop
ReverseResult(q, candidates) ==
    IF candidates = <<>>
    THEN [best |-> None, similarity |-> 0, all |-> <<>>]
    ELSE LET similarities == CalculateMultipleSimilarities(q, candidates)
             best_index == ArgMax(similarities)
         IN [best       |-> Some(candidates[best_index]),
             similarity |-> similarities[best_index],
             all        |-> candidates]

\* ------------------------------------------------------------------------
\* State
\* ------------------------------------------------------------------------
VARIABLES
    config,             \* config.config: the keys the pipeline reads
    knowledge,          \* KnowledgeBase.knowledge of the module-level instance
    entry,              \* the operation that was called from outside
    pc,                 \* where the call stands
    question,           \* verify_answer / reverse_questions / detect argument
    answer,             \* the generated (or given) answer
    original_similarity,\* detect_with_all_methods argument, None when omitted
    factuality_score,   \* detect_with_all_methods argument, None when omitted
    factuality,         \* what check_factuality returned
    generate_times,     \* reverse_questions argument
    i,                  \* loop index of reverse_questions
    reversed_questions, \* the candidate list of reverse_questions
    caller,             \* who awaits the running generate_text call
    retries,            \* generate_text argument, 0 when omitted
    attempt,            \* loop index of generate_text
    requests,           \* HTTP requests issued by the running generate_text call
    waits,              \* time.sleep durations of the running generate_text call
    status_code,        \* response.status_code of the latest request, 0 without a reply
    generated,          \* what the last generate_text call returned
    conflict,           \* what check_conflict returned
    reversed,           \* what reverse_questions returned
    detection,          \* what detect_with_all_methods returned
    result,             \* what verify_answer returned
    drift,              \* what detect_topic_drift returned
    settings_pc,        \* where a save_system_settings call stands
    settings,           \* the thresholds the settings page last submitted
    similarities,       \* what the calculate_similarity calls returned, in order
    app_knowledge,      \* the entries of the KnowledgeBase instance of app.py
    knowledge_file      \* the entries knowledge.json holds, None without the file

vars ==
    <<config, knowledge, entry, pc, question, answer, original_similarity,
      factuality_score, factuality, generate_times, i, reversed_questions,
      caller, retries, attempt, status_code, requests, waits, generated, conflict, reversed,
      detection, result, drift, settings_pc, settings, similarities,
      app_knowledge, knowledge_file>>

\* the state of the operations that run beside a call of the pipeline
aside == <<drift, settings_pc, settings, similarities, app_knowledge, knowledge_file>>

\* ------------------------------------------------------------------------
\* Inputs
\* ------------------------------------------------------------------------
\* questions put to verify_answer and reverse_questions
Questions == {<<"a", "a", "a">>, <<"a", " ", "B">>, <<" ">>}

\* texts the collaborator generates for the answer prompt
AnswerReplies == {<<>>, <<"a", "a", "a">>, <<"B">>}

\* texts the collaborator generates for the factuality prompt
FactualityReplies ==
    {<<>>, <<"a">>, <<"p", "f", ":", "7", " ", "l", "y", ":", "a">>, <<"p", "f", "1", "5">>}

\* texts the collaborator generates for a reverse-question prompt
CandidateReplies ==
    {<<>>, <<"a", "a", "a">>, <<"a", "a", "a", " ", "B", "B">>, <<"a">>, <<" ">>}

RepliesFor(c) ==
    CASE c = "direct" -> TextsUpTo(MaxLen)
      [] c = "answer" -> AnswerReplies
      [] c = "factuality" -> FactualityReplies
      [] OTHER -> CandidateReplies

\* knowledge stores of the pipeline: empty, or one entry whose key occurs in
\* some questions and whose fact occurs whole in some answers, or only in
\* part in some answers
PipelineStores ==
    {<<>>, << <<(<<"a">>), (<<"B">>)>> >>, << <<(<<"a">>), (<<"B", "B">>)>> >>}

DefaultConfig ==
    [API_KEY             |-> TRUE,
     RETRY_ATTEMPTS      |-> RetryAttempts,
     RISK_THRESHOLD      |-> DefaultRiskThreshold,
     SIMILARITY_CRITICAL |-> DefaultSimilarityCritical]

\* the values no call has assigned yet; the instance of app.py and
\* knowledge.json hold the entries of the pipeline's instance
Idle ==
    /\ original_similarity = None
    /\ factuality_score = None
    /\ factuality = None
    /\ i = 0
    /\ reversed_questions = <<>>
    /\ caller = "none"
    /\ retries = 0
    /\ attempt = 0
    /\ status_code = 0
    /\ requests = 0
    /\ waits = <<>>
    /\ generated = None
    /\ conflict = None
    /\ reversed = None
    /\ detection = None
    /\ result = None
    /\ drift = None
    /\ settings_pc = "idle"
    /\ settings = <<DefaultRiskThreshold, DefaultSimilarityCritical>>
    /\ similarities = <<>>
    /\ app_knowledge = knowledge
    /\ knowledge_file = Some(knowledge)

\* ------------------------------------------------------------------------
\* verify_answer (reverse_verify.py): what follows each generate_text call
\* ------------------------------------------------------------------------
\* lines 139-147: the result when no answer was generated
BasicResult(q) ==
    [question          |-> q,
     answer            |-> AnswerFailedText,
     reversed_question |-> <<>>,
     similarity        |-> 0,
     is_risk           |-> TRUE,
     error             |-> "answer_generation_failed"]

\* lines 187-204: the result of a completed verification
FullResult(q, ans, rr, fact, conf, det) ==
    [question                |-> q,
     answer                  |-> ans,
     reversed_question       |-> rr.best,
     all_reversed_questions  |-> rr.all,
     similarity              |-> rr.similarity,
     is_risk                 |-> det.is_hallucination,
     risk_score              |-> det.risk_score,
     factuality_score        |-> fact.score,
     factuality_reason       |-> fact.reason,
     is_knowledge_conflict   |-> conf.is_conflict,
     knowledge_conflict_info |-> IF conf.is_conflict THEN conf.info ELSE None,
     detection_methods       |-> det.methods]

\* the argument gone otherwise: no similarity is passed after a failed generation
SimilarityArgument_OmittedOnFailure(rr) ==
    IF rr.best.some THEN Some(rr.similarity) ELSE None

\* verify_answer line 177: original_similarity=similarity
SimilarityArgument(rr) == Some(rr.similarity)

\* generate_text returned to a caller outside the pipeline
ReturnDirect ==
    /\ pc' = "done"
    /\ UNCHANGED <<aside, config, knowledge, entry, retries, question, answer, original_similarity,
                   factuality_score, factuality, generate_times, i,
                   reversed_questions, caller, conflict, reversed, detection, result>>

\* verify_answer lines 130-161: the answer came back
ReturnAnswer(text) ==
    IF text = <<>>
    THEN /\ answer' = AnswerFailedText
         /\ result' = Some(BasicResult(question))
         /\ pc' = "done"
         /\ UNCHANGED <<aside, config, knowledge, entry, retries, question, original_similarity,
                        factuality_score, factuality, generate_times, i,
                        reversed_questions, caller, conflict, reversed, detection>>
    ELSE /\ answer' = text
         /\ conflict' = Some(CheckConflict(knowledge, question, text))
         /\ caller' = "factuality"
         /\ pc' = "generate_text"
         /\ UNCHANGED <<aside, config, knowledge, entry, retries, question, original_similarity,
                        factuality_score, factuality, generate_times, i,
                        reversed_questions, reversed, detection, result>>

\* check_factuality lines 144-160; called from verify_answer, line 165 then
\* enters reverse_questions (generate_times = 3 there, so the loop body runs)
ReturnFactuality(text) ==
    /\ factuality' = Some(CheckFactuality(text))
    /\ IF entry = "check_factuality"
       THEN /\ pc' = "done"
            /\ UNCHANGED <<reversed_questions, i, caller>>
       ELSE /\ reversed_questions' = <<>>
            /\ i' = 0
            /\ caller' = "reverse"
            /\ pc' = "generate_text"
    /\ UNCHANGED <<aside, config, knowledge, entry, retries, question, answer, original_similarity,
                   factuality_score, generate_times, conflict, reversed, detection,
                   result>>

\* reverse_questions lines 93-94: the candidate is kept when it is not empty
Collected(candidates, text) ==
    IF text # <<>> THEN Append(candidates, text) ELSE candidates

\* reverse_questions lines 92-94: the reply of attempt i came back
ReturnReverse(text) ==
    /\ reversed_questions' = Collected(reversed_questions, text)
    /\ i' = i + 1
    /\ pc' = IF i + 1 < generate_times THEN "generate_text" ELSE "select"
    /\ UNCHANGED <<aside, config, knowledge, entry, retries, question, answer, original_similarity,
                   factuality_score, factuality, generate_times, caller, conflict,
                   reversed, detection, result>>

\* generate_text returns text; ok tells a generated text from a failure
\* message; reqs and ws are the requests and waits of the finished call,
\* which only a direct caller can still observe, like the status of the last
\* reply
Return(text, ok, reqs, ws, status) ==
    /\ generated' = [some |-> TRUE, val |-> text, ok |-> ok]
    /\ attempt' = 0
    /\ status_code' = IF caller = "direct" THEN status ELSE 0
    /\ requests' = IF caller = "direct" THEN reqs ELSE 0
    /\ waits' = IF caller = "direct" THEN ws ELSE <<>>
    /\ CASE caller = "direct" -> ReturnDirect
         [] caller = "answer" -> ReturnAnswer(text)
         [] caller = "factuality" -> ReturnFactuality(text)
         [] caller = "reverse" -> ReturnReverse(text)

\* ------------------------------------------------------------------------
\* Actions
\* ------------------------------------------------------------------------
\* verify_answer lines 120-130: up to the call that generates the answer
VerifyAnswerBegin ==
    /\ pc = "verify_answer"
    /\ caller' = "answer"
    /\ pc' = "generate_text"
    /\ UNCHANGED <<aside, config, knowledge, entry, retries, question, answer, original_similarity,
                   factuality_score, factuality, generate_times, i,
                   reversed_questions, attempt, status_code, requests, waits, generated,
                   conflict, reversed, detection, result>>

\* reverse_questions lines 59-71 called directly: an empty range goes straight
\* to line 96
ReverseQuestionsBegin ==
    /\ pc = "reverse_questions"
    /\ reversed_questions' = <<>>
    /\ i' = 0
    /\ caller' = "reverse"
    /\ pc' = IF generate_times > 0 THEN "generate_text" ELSE "select"
    /\ UNCHANGED <<aside, config, knowledge, entry, retries, question, answer, original_similarity,
                   factuality_score, factuality, generate_times, attempt, status_code, requests,
                   waits, generated, conflict, reversed, detection, result>>

\* reverse_questions lines 96-107: the loop is over, the best candidate is
\* selected and the tuple returned
SelectBest ==
    /\ pc = "select"
    /\ reversed' = Some(ReverseResult(question, reversed_questions))
    /\ pc' = IF entry = "verify_answer" THEN "detect" ELSE "done"
    /\ UNCHANGED <<aside, config, knowledge, entry, retries, question, answer, original_similarity,
                   factuality_score, factuality, generate_times, i,
                   reversed_questions, caller, attempt, status_code, requests, waits, generated,
                   conflict, detection, result>>

\* verify_answer lines 165-226: the ensemble is evaluated on the similarity
\* and the factuality score, and the result assembled
EvaluateEnsemble ==
    /\ pc = "detect"
    /\ LET rr == reversed.val
           det == DetectWithAllMethods(knowledge, config, question, answer,
                      SimilarityArgument(rr), Some(factuality.val.score))
       IN /\ original_similarity' = SimilarityArgument(rr)
          /\ factuality_score' = Some(factuality.val.score)
          /\ detection' = Some(det)
          /\ result' = Some(FullResult(question, answer, rr, factuality.val,
                                       conflict.val, det))
    /\ pc' = "done"
    /\ UNCHANGED <<aside, config, knowledge, entry, retries, question, answer, factuality,
                   generate_times, i, reversed_questions, caller, attempt, status_code, requests,
                   waits, generated, conflict, reversed>>

\* generate_text line 41: retries or config.get("RETRY_ATTEMPTS", 3)
RetryCount == IF retries # 0 THEN retries ELSE config.RETRY_ATTEMPTS

\* generate_text lines 35-72: without an API key it returns a message at once
GenerateTextEnter ==
    /\ pc = "generate_text"
    /\ IF ~config.API_KEY
       THEN Return(ApiKeyMissingText, FALSE, 0, <<>>, 0)
       ELSE /\ pc' = "request"
            /\ attempt' = 0
            /\ status_code' = 0
            /\ requests' = 0
            /\ waits' = <<>>
            /\ generated' = None
            /\ UNCHANGED <<aside, config, knowledge, entry, retries, question, answer,
                           original_similarity, factuality_score, factuality,
                           generate_times, i, reversed_questions, caller, conflict,
                           reversed, detection, result>>

\* the loop of line 73 goes on to the next attempt after sleeping w seconds,
\* or is exhausted and line 117 returns the failure message; status is the
\* status of the reply, 0 when the request raised
NextAttempt(w, status) ==
    IF attempt + 1 < RetryCount
    THEN /\ attempt' = attempt + 1
         /\ status_code' = status
         /\ requests' = requests + 1
         /\ waits' = Append(waits, w)
         /\ UNCHANGED <<aside, config, knowledge, entry, retries, pc, question, answer,
                        original_similarity, factuality_score, factuality,
                        generate_times, i, reversed_questions, caller, generated,
                        conflict, reversed, detection, result>>
    ELSE Return(RetriesExhaustedText, FALSE, requests + 1, Append(waits, w), status)

\* lines 76-94: status 200, the content of the reply is returned
RequestOk(text) ==
    /\ pc = "request"
    /\ 200 \in Statuses
    /\ Return(text, TRUE, requests + 1, waits, 200)

\* a transient status answered with the flat wait of the except branch
RequestTransient_FlatWait(status) ==
    /\ pc = "request"
    /\ status \in TransientStatus
    /\ NextAttempt(2, status)

\* lines 95-105: a transient status, wait (attempt + 1) * 2 seconds and retry
RequestTransient(status) ==
    /\ pc = "request"
    /\ status \in TransientStatus
    /\ NextAttempt((attempt + 1) * 2, status)

\* lines 106-108 and 115-117: any other status leaves the loop
RequestRejected(status) ==
    /\ pc = "request"
    /\ status # 200
    /\ status \notin TransientStatus
    /\ Return(RetriesExhaustedText, FALSE, requests + 1, waits, status)

\* what the latest request brought when line 110 catches an exception: no
\* reply (requests.post raised, 0), or a reply with status 200 whose body
\* lines 81-82 could not decode (response.json() or the [0] of an empty list
\* of choices raised)
RaisingStatuses == {0, 200}

\* lines 110-113: the request or the decoding of its reply raised; the loop
\* sleeps 2 seconds and goes on
RequestException ==
    /\ pc = "request"
    /\ \E status \in RaisingStatuses : NextAttempt(2, status)

\* ------------------------------------------------------------------------
\* Specification of the pipeline: one verify_answer call
\* ------------------------------------------------------------------------
Init ==
    /\ config \in {[DefaultConfig EXCEPT !.API_KEY = k] : k \in BOOLEAN}
    /\ knowledge \in PipelineStores
    /\ entry = "verify_answer"
    /\ pc = "verify_answer"
    /\ question \in Questions
    /\ answer = <<>>
    /\ generate_times = 3
    /\ Idle

Next ==
    \/ VerifyAnswerBegin
    \/ GenerateTextEnter
    \/ \E text \in RepliesFor(caller) : RequestOk(text)
    \/ \E status \in Statuses : RequestTransient(status)
    \/ \E status \in Statuses : RequestRejected(status)
    \/ RequestException
    \/ SelectBest
    \/ EvaluateEnsemble

Spec == Init /\ [][Next]_vars

\* ------------------------------------------------------------------------
\* Specification of one reverse_questions call
\* ------------------------------------------------------------------------
InitReverse ==
    /\ config \in {[DefaultConfig EXCEPT !.API_KEY = k] : k \in BOOLEAN}
    /\ knowledge = <<>>
    /\ entry = "reverse_questions"
    /\ pc = "reverse_questions"
    /\ question \in Questions
    /\ answer = <<"a", "a", "a">>
    /\ generate_times \in 0..MaxGenerateTimes
    /\ Idle

NextReverse ==
    \/ ReverseQuestionsBegin
    \/ GenerateTextEnter
    \/ \E text \in RepliesFor(caller) : RequestOk(text)
    \/ \E status \in Statuses : RequestTransient(status)
    \/ \E status \in Statuses : RequestRejected(status)
    \/ RequestException
    \/ SelectBest

SpecReverse == InitReverse /\ [][NextReverse]_vars

\* ------------------------------------------------------------------------
\* Specification of one generate_text call
\* ------------------------------------------------------------------------
InitGenerate ==
    /\ config \in {[DefaultConfig EXCEPT !.API_KEY = k] : k \in BOOLEAN}
    /\ knowledge = <<>>
    /\ entry = "generate_text"
    /\ pc = "generate_text"
    /\ question = <<>>
    /\ answer = <<>>
    /\ generate_times = 0
    /\ original_similarity = None
    /\ factuality_score = None
    /\ factuality = None
    /\ i = 0
    /\ reversed_questions = <<>>
    /\ caller = "direct"
    /\ retries \in 0..MaxRetries
    /\ attempt = 0
    /\ status_code = 0
    /\ requests = 0
    /\ waits = <<>>
    /\ generated = None
    /\ conflict = None
    /\ reversed = None
    /\ detection = None
    /\ result = None
    /\ drift = None
    /\ settings_pc = "idle"
    /\ settings = <<config.RISK_THRESHOLD, config.SIMILARITY_CRITICAL>>
    /\ similarities = <<>>
    /\ app_knowledge = knowledge
    /\ knowledge_file = Some(knowledge)

NextGenerate ==
    \/ GenerateTextEnter
    \/ \E text \in RepliesFor(caller) : RequestOk(text)
    \/ \E status \in Statuses : RequestTransient(status)
    \/ \E status \in Statuses : RequestRejected(status)
    \/ RequestException

SpecGenerate == InitGenerate /\ [][NextGenerate]_vars

\* the same call when every request it issues is answered or raises and every
\* time.sleep returns: generate_text is sequential code, nothing else has to
\* be scheduled for its next step
SpecGenerateLive == SpecGenerate /\ WF_vars(NextGenerate)

\* ------------------------------------------------------------------------
\* Specification of one verify_answer call under thresholds that config.json
\* holds when the configuration is loaded
\* ------------------------------------------------------------------------
\* RISK_THRESHOLD, SIMILARITY_CRITICAL: the defaults, a risk threshold that the
\* reverse_question weight alone does not exceed, and with it a critical
\* similarity of 0
LoadedThresholds ==
    {<<DefaultRiskThreshold, DefaultSimilarityCritical>>,
     <<(9 * Scale) \div 10, DefaultSimilarityCritical>>,
     <<(9 * Scale) \div 10, 0>>}

InitLoaded ==
    /\ config \in {[DefaultConfig EXCEPT !.RISK_THRESHOLD = t[1],
                                         !.SIMILARITY_CRITICAL = t[2]] :
                       t \in LoadedThresholds}
    /\ knowledge \in PipelineStores
    /\ entry = "verify_answer"
    /\ pc = "verify_answer"
    /\ question \in Questions
    /\ answer = <<>>
    /\ generate_times = 3
    /\ Idle

SpecLoaded == InitLoaded /\ [][Next]_vars

\* ------------------------------------------------------------------------
\* Specification of one detect_with_all_methods call
\* ------------------------------------------------------------------------
\* thresholds the settings page can store: RISK_THRESHOLD, SIMILARITY_CRITICAL
ThresholdChoices ==
    {<<DefaultRiskThreshold, DefaultSimilarityCritical>>,
     <<Scale \div 10, DefaultSimilarityCritical>>,
     <<DefaultRiskThreshold, (8 * Scale) \div 10>>}

\* similarities handed to the ensemble: tenths from 0 up to MaxSimTenths / 10
SimilarityArgs == {None} \cup {Some((k * Scale) \div 10) : k \in 0..MaxSimTenths}

\* factuality scores handed to the ensemble
FactualityArgs == {None} \cup {Some(f) : f \in 0..MaxFactuality}

\* the call gone wrong: the evaluation stores the default it passes to
\* config.get as the RISK_THRESHOLD of the configuration
DetectCall_StoresDefault ==
    /\ pc = "detect_call"
    /\ detection' = Some(DetectWithAllMethods(knowledge, config, question, answer,
                             original_similarity, factuality_score))
    /\ config' = [config EXCEPT !.RISK_THRESHOLD = DefaultRiskThreshold]
    /\ pc' = "done"
    /\ UNCHANGED <<aside, knowledge, entry, retries, question, answer,
                   original_similarity, factuality_score, factuality, generate_times,
                   i, reversed_questions, caller, attempt, status_code, requests, waits,
                   generated, conflict, reversed, result>>

\* HallucinationDetector.detect_with_all_methods called on the arguments
DetectCall ==
    /\ pc = "detect_call"
    /\ detection' = Some(DetectWithAllMethods(knowledge, config, question, answer,
                             original_similarity, factuality_score))
    /\ pc' = "done"
    /\ UNCHANGED <<aside, config, knowledge, entry, retries, question, answer,
                   original_similarity, factuality_score, factuality, generate_times,
                   i, reversed_questions, caller, attempt, status_code, requests, waits,
                   generated, conflict, reversed, result>>

InitDetect ==
    /\ config \in {[DefaultConfig EXCEPT !.RISK_THRESHOLD = th[1],
                                         !.SIMILARITY_CRITICAL = th[2]] :
                      th \in ThresholdChoices}
    /\ knowledge \in PipelineStores
    /\ entry = "detect_with_all_methods"
    /\ pc = "detect_call"
    /\ question \in Questions
    /\ answer \in AnswerReplies
    /\ generate_times = 0
    /\ original_similarity \in SimilarityArgs
    /\ factuality_score \in FactualityArgs
    /\ factuality = None
    /\ i = 0
    /\ reversed_questions = <<>>
    /\ caller = "none"
    /\ retries = 0
    /\ attempt = 0
    /\ status_code = 0
    /\ requests = 0
    /\ waits = <<>>
    /\ generated = None
    /\ conflict = None
    /\ reversed = None
    /\ detection = None
    /\ result = None
    /\ drift = None
    /\ settings_pc = "idle"
    /\ settings = <<config.RISK_THRESHOLD, config.SIMILARITY_CRITICAL>>
    /\ similarities = <<>>
    /\ app_knowledge = knowledge
    /\ knowledge_file = Some(knowledge)

NextDetect == DetectCall

SpecDetect == InitDetect /\ [][NextDetect]_vars

\* ------------------------------------------------------------------------
\* Specification of one KnowledgeBase.check_conflict call
\* ------------------------------------------------------------------------
KeyTexts == {<<"a">>, <<"B">>, <<"a", "B">>}
FactTexts == {<<"B">>, <<"a", "a">>}

\* the stores of at most n entries with distinct keys
RECURSIVE StoresOfLen(_)
StoresOfLen(n) ==
    IF n = 0 THEN {<<>>}
    ELSE {Append(st, <<k, f>>) :
             st \in StoresOfLen(n - 1),
             k \in KeyTexts, f \in FactTexts}

DistinctKeys(st) == \A m, n \in 1..Len(st) : m # n => st[m][1] # st[n][1]

StoresUpTo(n) == {st \in UNION {StoresOfLen(k) : k \in 0..n} : DistinctKeys(st)}

\* KnowledgeBase.check_conflict called on the arguments
CheckConflictCall ==
    /\ pc = "check_conflict"
    /\ conflict' = Some(CheckConflict(knowledge, question, answer))
    /\ pc' = "done"
    /\ UNCHANGED <<aside, config, knowledge, entry, retries, question, answer,
                   original_similarity, factuality_score, factuality, generate_times,
                   i, reversed_questions, caller, attempt, status_code, requests, waits,
                   generated, reversed, detection, result>>

InitKB ==
    /\ config = DefaultConfig
    /\ knowledge \in StoresUpTo(MaxStore)
    /\ entry = "check_conflict"
    /\ pc = "check_conflict"
    /\ question \in TextsUpTo(MaxLen)
    /\ answer \in TextsUpTo(MaxLen)
    /\ generate_times = 0
    /\ Idle

NextKB == CheckConflictCall

SpecKB == InitKB /\ [][NextKB]_vars

\* ------------------------------------------------------------------------
\* Specification of one detect_topic_drift call
\* ------------------------------------------------------------------------
\* a question of four tokens of three characters
FourTokens ==
    <<"a", "a", "a", " ", "B", "B", "B", " ", "a", "B", "a", " ", "B", "a", "B">>

\* questions put to detect_topic_drift: the short texts, a question of four
\* long tokens, the same with a short token after them, and a long token
\* followed by a short one
DriftQuestions ==
    TextsUpTo(MaxLen)
        \cup {FourTokens, FourTokens \o <<" ", "a">>, <<"a", "a", "a", " ", "B">>}

\* answers put to detect_topic_drift: the short texts and an answer that holds
\* two of the four long tokens
DriftAnswers == TextsUpTo(MaxLen) \cup {<<"a", "a", "a", " ", "b", "B", "B">>}

\* HallucinationDetector.detect_topic_drift called on the arguments
DetectTopicDriftCall ==
    /\ pc = "detect_topic_drift"
    /\ drift' = Some(DetectTopicDrift(question, answer))
    /\ pc' = "done"
    /\ UNCHANGED <<app_knowledge, knowledge_file, settings_pc, settings, similarities, config, knowledge, entry, retries, question,
                   answer, original_similarity, factuality_score, factuality,
                   generate_times, i, reversed_questions, caller, attempt, status_code, requests,
                   waits, generated, conflict, reversed, detection, result>>

InitDrift ==
    /\ config = DefaultConfig
    /\ knowledge = <<>>
    /\ entry = "detect_topic_drift"
    /\ pc = "detect_topic_drift"
    /\ question \in DriftQuestions
    /\ answer \in DriftAnswers
    /\ generate_times = 0
    /\ Idle

NextDrift == DetectTopicDriftCall

SpecDrift == InitDrift /\ [][NextDrift]_vars

\* ------------------------------------------------------------------------
\* The settings page (app.py save_system_settings) and config.set
\* ------------------------------------------------------------------------
\* Config.set gone wrong: the value is not stored
ConfigSet_Dropped(cfg, key, value) == cfg

\* Config.set(key, value)
ConfigSet(cfg, key, value) == [cfg EXCEPT ![key] = value]

\* save_system_settings lines 680-690: the handler is called with the slider
\* values and stores RISK_THRESHOLD
SaveSystemSettingsBegin(risk_threshold, similarity_critical) ==
    /\ settings_pc = "idle"
    /\ settings' = <<risk_threshold, similarity_critical>>
    /\ config' = ConfigSet(config, "RISK_THRESHOLD", risk_threshold)
    /\ settings_pc' = "set_critical"
    /\ UNCHANGED <<app_knowledge, knowledge_file, drift, similarities, knowledge, entry, retries, pc, question, answer,
                   original_similarity, factuality_score, factuality, generate_times,
                   i, reversed_questions, caller, attempt, status_code, requests, waits,
                   generated, conflict, reversed, detection, result>>

\* save_system_settings lines 691-705: SIMILARITY_CRITICAL is stored and the
\* handler returns
SaveSystemSettingsEnd ==
    /\ settings_pc = "set_critical"
    /\ config' = ConfigSet(config, "SIMILARITY_CRITICAL", settings[2])
    /\ settings_pc' = "idle"
    /\ UNCHANGED <<app_knowledge, knowledge_file, drift, similarities, settings, knowledge, entry, retries, pc, question, answer,
                   original_similarity, factuality_score, factuality, generate_times,
                   i, reversed_questions, caller, attempt, status_code, requests, waits,
                   generated, conflict, reversed, detection, result>>

\* ------------------------------------------------------------------------
\* Specification of the detector beside the settings page: evaluations and
\* saves in any order
\* ------------------------------------------------------------------------
\* the next detect_with_all_methods call is made, on a similarity and a
\* factuality score
DetectIssued(sim, fact) ==
    /\ pc = "done"
    /\ original_similarity' = sim
    /\ factuality_score' = fact
    /\ detection' = None
    /\ pc' = "detect_call"
    /\ UNCHANGED <<aside, config, knowledge, entry, retries, question, answer,
                   factuality, generate_times, i, reversed_questions, caller,
                   attempt, status_code, requests, waits, generated, conflict, reversed, result>>

InitSettings ==
    /\ config = DefaultConfig
    /\ knowledge \in PipelineStores
    /\ entry = "detect_with_all_methods"
    /\ pc = "done"
    /\ question \in Questions
    /\ answer \in AnswerReplies
    /\ generate_times = 0
    /\ Idle

NextSettings ==
    \/ \E sim \in SimilarityArgs, fact \in FactualityArgs : DetectIssued(sim, fact)
    \/ DetectCall
    \/ \E th \in ThresholdChoices : SaveSystemSettingsBegin(th[1], th[2])
    \/ SaveSystemSettingsEnd

SpecSettings == InitSettings /\ [][NextSettings]_vars

\* ------------------------------------------------------------------------
\* Specification of one verify_answer call beside the settings page
\* ------------------------------------------------------------------------
InitConcurrent ==
    /\ config = DefaultConfig
    /\ knowledge = <<>>
    /\ entry = "verify_answer"
    /\ pc = "verify_answer"
    /\ question \in Questions
    /\ answer = <<>>
    /\ generate_times = 3
    /\ Idle

NextConcurrent ==
    \/ VerifyAnswerBegin
    \/ GenerateTextEnter
    \/ \E text \in RepliesFor(caller) : RequestOk(text)
    \/ \E status \in Statuses : RequestTransient(status)
    \/ \E status \in Statuses : RequestRejected(status)
    \/ RequestException
    \/ SelectBest
    \/ EvaluateEnsemble
    \/ \E th \in ThresholdChoices : SaveSystemSettingsBegin(th[1], th[2])
    \/ SaveSystemSettingsEnd

SpecConcurrent == InitConcurrent /\ [][NextConcurrent]_vars

\* ------------------------------------------------------------------------
\* Specification of one check_factuality call
\* ------------------------------------------------------------------------
\* texts the collaborator generates for the factuality prompt of a direct
\* call: those of the pipeline, a score label followed by a blank, a score
\* of 0, a reason without a score, a second score label after one without a
\* number, and a reason before the score
FactualityTexts ==
    FactualityReplies
        \cup {<<"p", "f", " ", "7">>,
              <<"p", "f", ":", "0">>,
              <<"l", "y", " ", "a", " ">>,
              <<"p", "f", ":", "a", "p", "f", "3", "l", "y", ":">>,
              <<"l", "y", ":", "p", "f", "1", "0">>,
              <<"7", " ", "p", "f">>}

\* check_factuality lines 134-144: up to the call that asks for the rating
CheckFactualityBegin ==
    /\ pc = "check_factuality"
    /\ caller' = "factuality"
    /\ pc' = "generate_text"
    /\ UNCHANGED <<aside, config, knowledge, entry, retries, question, answer,
                   original_similarity, factuality_score, factuality, generate_times,
                   i, reversed_questions, attempt, status_code, requests, waits, generated,
                   conflict, reversed, detection, result>>

InitFactuality ==
    /\ config \in {[DefaultConfig EXCEPT !.API_KEY = k] : k \in BOOLEAN}
    /\ knowledge = <<>>
    /\ entry = "check_factuality"
    /\ pc = "check_factuality"
    /\ question = <<>>
    /\ answer \in TextsUpTo(MaxLen)
    /\ generate_times = 0
    /\ Idle

NextFactuality ==
    \/ CheckFactualityBegin
    \/ GenerateTextEnter
    \/ \E text \in FactualityTexts : RequestOk(text)
    \/ \E status \in Statuses : RequestTransient(status)
    \/ \E status \in Statuses : RequestRejected(status)
    \/ RequestException

SpecFactuality == InitFactuality /\ [][NextFactuality]_vars

\* ------------------------------------------------------------------------
\* Specification of calculate_similarity: one call, then the call with the
\* arguments exchanged
\* ------------------------------------------------------------------------
\* texts put to calculate_similarity: the short texts and two texts of four
\* characters without a token of two letters
SimilarityTexts ==
    TextsUpTo(MaxLen) \cup {<<" ", "B", " ", "a">>, <<"a", " ", "B", " ">>}

\* calculate_similarity(text1, text2) is called and returns
CalculateSimilarityCall(text1, text2, next) ==
    /\ similarities' = Append(similarities, CalculateSimilarity(text1, text2))
    /\ pc' = next
    /\ UNCHANGED <<app_knowledge, knowledge_file, drift, settings_pc, settings, config, knowledge, entry, retries,
                   question, answer, original_similarity, factuality_score,
                   factuality, generate_times, i, reversed_questions, caller,
                   attempt, status_code, requests, waits, generated, conflict, reversed,
                   detection, result>>

InitSimilarity ==
    /\ config = DefaultConfig
    /\ knowledge = <<>>
    /\ entry = "calculate_similarity"
    /\ pc = "calculate_similarity"
    /\ question \in SimilarityTexts
    /\ answer \in SimilarityTexts
    /\ generate_times = 0
    /\ Idle

NextSimilarity ==
    \/ (pc = "calculate_similarity" /\ CalculateSimilarityCall(question, answer, "exchanged"))
    \/ (pc = "exchanged" /\ CalculateSimilarityCall(answer, question, "done"))

SpecSimilarity == InitSimilarity /\ [][NextSimilarity]_vars

\* ------------------------------------------------------------------------
\* Specification of the knowledge page of the application (app.py) beside
\* the pipeline's check_conflict
\* ------------------------------------------------------------------------
\* the entries KnowledgeBase.__init__ starts from (lines 19-29)
DefaultKnowledge == << <<(<<"a">>), (<<"B">>)>> >>

\* KnowledgeBase.__init__ lines 19-38: the defaults, replaced by the entries of
\* knowledge.json when the file is there
LoadedKnowledge(file) == IF file.some THEN file.val ELSE DefaultKnowledge

\* the positions of key in the store
KeyPositions(store, key) == {n \in 1..Len(store) : store[n][1] = key}

\* KnowledgeBase.add_knowledge: self.knowledge[key] = value keeps the place of
\* a key the dictionary holds and puts a new key last
AddKnowledge(store, key, value) ==
    IF KeyPositions(store, key) # {}
    THEN [n \in 1..Len(store) |-> IF store[n][1] = key THEN <<key, value>> ELSE store[n]]
    ELSE Append(store, <<key, value>>)

\* KnowledgeBase.remove_knowledge: del self.knowledge[key]
RECURSIVE RemoveKnowledge(_, _)
RemoveKnowledge(store, key) ==
    IF store = <<>> THEN <<>>
    ELSE IF Head(store)[1] = key THEN RemoveKnowledge(Tail(store), key)
    ELSE <<Head(store)>> \o RemoveKnowledge(Tail(store), key)

\* KnowledgeBase.import_from_csv lines 191-200: each row with a key and a
\* value that are not blank is stored, in the order of the rows
RECURSIVE ImportRows(_, _)
ImportRows(store, rows) ==
    IF rows = <<>> THEN store
    ELSE LET key == Strip(Head(rows)[1])
             value == Strip(Head(rows)[2])
         IN ImportRows(IF key # <<>> /\ value # <<>>
                       THEN AddKnowledge(store, key, value)
                       ELSE store,
                       Tail(rows))

\* what the forms of the knowledge page are filled with
KeyInputs == {<<"a">>, <<"B">>, <<"a", "B">>, <<" ", "a">>, <<" ">>}
ValueInputs == {<<"B">>, <<"a", "a">>, <<"B", " ">>}

\* the rows of the CSV files that are imported
CsvFiles ==
    {<<>>,
     << <<(<<"B">>), (<<"a", "a">>)>> >>,
     << <<(<<"a">>), (<<"a", "a">>)>>, <<(<<" ">>), (<<"B">>)>> >>}

\* what changes no further in a step of the knowledge page
AppFrame ==
    UNCHANGED <<drift, settings_pc, settings, similarities, config, knowledge, entry,
                retries, pc, question, answer, original_similarity, factuality_score,
                factuality, generate_times, i, reversed_questions, caller, attempt,
                status_code, requests, waits, generated, conflict, reversed, detection,
                result>>

\* the page working on the instance of reverse_verify: the entry reaches the
\* entries the pipeline consults
AddKnowledgeItem_SharedInstance(key, value) ==
    /\ Strip(key) # <<>>
    /\ app_knowledge' = AddKnowledge(app_knowledge, Strip(key), Strip(value))
    /\ knowledge' = app_knowledge'
    /\ knowledge_file' = Some(app_knowledge')
    /\ UNCHANGED <<drift, settings_pc, settings, similarities, config, entry, retries, pc,
                   question, answer, original_similarity, factuality_score,
                   factuality, generate_times, i, reversed_questions, caller, attempt,
                   status_code, requests, waits, generated, conflict, reversed,
                   detection, result>>

\* add_knowledge_item (app.py lines 121-135): a blank key is refused, else
\* the entry is stored in the instance of app.py and the instance saved
AddKnowledgeItem(key, value) ==
    /\ Strip(key) # <<>>
    /\ app_knowledge' = AddKnowledge(app_knowledge, Strip(key), Strip(value))
    /\ knowledge_file' = Some(app_knowledge')
    /\ AppFrame

\* delete_knowledge_item (app.py lines 137-151): the instance of app.py is
\* saved whether the key was found or not
DeleteKnowledgeItem(key) ==
    /\ Strip(key) # <<>>
    /\ app_knowledge' = RemoveKnowledge(app_knowledge, Strip(key))
    /\ knowledge_file' = Some(app_knowledge')
    /\ AppFrame

\* import_knowledge (app.py lines 157-176): the rows are imported into the
\* instance of app.py, which import_from_csv saves (line 203)
ImportKnowledge(rows) ==
    /\ app_knowledge' = ImportRows(app_knowledge, rows)
    /\ knowledge_file' = Some(app_knowledge')
    /\ AppFrame

\* knowledge.json when the application starts
KnowledgeFiles == {None} \cup {Some(st) : st \in PipelineStores}

\* both instances are constructed at import, reverse_verify's first (app.py
\* line 2), then the one of app.py (line 118); verify_answer then consults
\* the pipeline's instance (reverse_verify.py line 156)
InitApp ==
    /\ config = DefaultConfig
    /\ knowledge_file \in KnowledgeFiles
    /\ knowledge = LoadedKnowledge(knowledge_file)
    /\ app_knowledge = LoadedKnowledge(knowledge_file)
    /\ entry = "check_conflict"
    /\ pc = "check_conflict"
    /\ question \in {<<"a">>, <<"B">>}
    /\ answer \in {<<"B">>, <<"a", "a">>}
    /\ generate_times = 0
    /\ original_similarity = None
    /\ factuality_score = None
    /\ factuality = None
    /\ i = 0
    /\ reversed_questions = <<>>
    /\ caller = "none"
    /\ retries = 0
    /\ attempt = 0
    /\ status_code = 0
    /\ requests = 0
    /\ waits = <<>>
    /\ generated = None
    /\ conflict = None
    /\ reversed = None
    /\ detection = None
    /\ result = None
    /\ drift = None
    /\ settings_pc = "idle"
    /\ settings = <<DefaultRiskThreshold, DefaultSimilarityCritical>>
    /\ similarities = <<>>

NextApp ==
    \/ \E key \in KeyInputs, value \in ValueInputs : AddKnowledgeItem(key, value)
    \/ \E key \in KeyInputs : DeleteKnowledgeItem(key)
    \/ \E rows \in CsvFiles : ImportKnowledge(rows)
    \/ CheckConflictCall

SpecApp == InitApp /\ [][NextApp]_vars

\* ------------------------------------------------------------------------
\* Properties
\* ------------------------------------------------------------------------
\* the weighted risk score of a finished evaluation exceeds RISK_THRESHOLD
RiskAboveThreshold ==
    detection.val.risk_score.num
        > config.RISK_THRESHOLD * detection.val.risk_score.den

\* a similarity was supplied and lies strictly below SIMILARITY_CRITICAL
OverrideApplies ==
    /\ original_similarity.some
    /\ original_similarity.val < config.SIMILARITY_CRITICAL

\* C1: whenever a similarity is supplied and is strictly below
\* SIMILARITY_CRITICAL, the evaluation reports a hallucination whatever the
\* weighted risk score is; when no similarity is supplied the decision is the
\* threshold comparison alone.
C1_OverrideRule ==
    detection.some =>
        /\ OverrideApplies => detection.val.is_hallucination
        /\ ~original_similarity.some
               => (detection.val.is_hallucination <=> RiskAboveThreshold)

\* C1 witness: a low similarity with a weighted score that does not exceed
\* the threshold, reported as a hallucination
C1_Witness ==
    /\ detection.some
    /\ OverrideApplies
    /\ ~RiskAboveThreshold
    /\ detection.val.is_hallucination

\* C2: when the override does not apply, the evaluation reports a
\* hallucination exactly when the risk score is strictly greater than
\* RISK_THRESHOLD; a score equal to the threshold is not a hallucination.
C2_StrictThreshold ==
    (detection.some /\ ~OverrideApplies)
        => /\ detection.val.is_hallucination <=> RiskAboveThreshold
           /\ (detection.val.risk_score.num
                   = config.RISK_THRESHOLD * detection.val.risk_score.den)
                  => ~detection.val.is_hallucination

\* C2 witness: a risk score exactly equal to the threshold, with a supplied
\* similarity that does not trigger the override
C2_Witness ==
    /\ detection.some
    /\ original_similarity.some
    /\ ~OverrideApplies
    /\ detection.val.risk_score.num
           = config.RISK_THRESHOLD * detection.val.risk_score.den
    /\ ~detection.val.is_hallucination

\* the signals an evaluation has to include for the arguments it was given
IncludedSignals ==
    {"topic_drift", "knowledge_conflict"}
        \cup (IF original_similarity.some THEN {"reverse_question"} ELSE {})
        \cup (IF factuality_score.some THEN {"factuality"} ELSE {})

\* C3: the risk score is the sum of score * weight over the included signals
\* divided by the sum of their weights; topic_drift and knowledge_conflict
\* are always included, reverse_question and factuality only when supplied.
C3_Aggregation ==
    detection.some =>
        LET m == detection.val.methods
            sw == SumFn([x \in IncludedSignals |-> m[x].score * m[x].weight],
                        IncludedSignals)
            w == SumFn([x \in IncludedSignals |-> m[x].weight], IncludedSignals)
        IN /\ DOMAIN m = IncludedSignals
           /\ w > 0
           /\ detection.val.risk_score.num * w = sw * detection.val.risk_score.den

\* C3 witness: an evaluation without a similarity but with a factuality score
C3_Witness ==
    /\ detection.some
    /\ ~original_similarity.some
    /\ factuality_score.some
    /\ detection.val.risk_score.den = weights.topic_drift + weights.factuality
                                          + weights.knowledge_conflict

\* C4: every reported signal has a score in [0,1] and a weight in [0,1], and
\* the risk score is in [0,1].
C4_ScoresInUnitInterval ==
    detection.some =>
        /\ \A x \in DOMAIN detection.val.methods :
              /\ 0 <= detection.val.methods[x].score
              /\ detection.val.methods[x].score <= Scale
              /\ 0 <= detection.val.methods[x].weight
              /\ detection.val.methods[x].weight <= Scale
        /\ 0 <= detection.val.risk_score.num
        /\ detection.val.risk_score.num <= Scale * detection.val.risk_score.den

\* a completed verification whose reverse-question generation produced no candidate
GenerationFailed ==
    /\ result.some
    /\ "detection_methods" \in DOMAIN result.val
    /\ result.val.all_reversed_questions = <<>>

C6_FailureReturnsEmpty ==
    (entry = "generate_text" /\ pc = "done" /\ ~generated.ok)
        => generated.val = <<>>

\* a generate_text call made by reverse_questions returns a failure in this step
FailedReverseAttempt ==
    /\ caller = "reverse"
    /\ pc \in {"generate_text", "request"}
    /\ generated'.some
    /\ ~generated'.ok

\* C7: the output of a failed generation attempt is never appended to the
\* candidate list, and the loop goes on to the next attempt.
C7_FailedAttemptSkipped ==
    [][FailedReverseAttempt
          => /\ reversed_questions' = reversed_questions
             /\ i' = i + 1
             /\ (i + 1 < generate_times => pc' = "generate_text")]_vars

\* the tuple reverse_questions returns on failure
FailureTuple == [best |-> None, similarity |-> 0, all |-> <<>>]

\* C8: reverse_questions returns between 0 and generate_times candidates, and
\* it returns the failure tuple if and only if no candidate was produced.
C8_CandidateCount ==
    (entry = "reverse_questions" /\ reversed.some)
        => /\ Len(reversed.val.all) <= generate_times
           /\ Len(reversed_questions) <= generate_times
           /\ (reversed.val = FailureTuple) <=> (reversed_questions = <<>>)

\* C8 witness: a call that produced exactly one candidate in several attempts
C8_Witness ==
    /\ entry = "reverse_questions"
    /\ reversed.some
    /\ generate_times > 1
    /\ Len(reversed_questions) = 1
    /\ reversed.val.best = Some(reversed_questions[1])

\* the returned tuple names the earliest candidate of maximal similarity
BestIsFirstMaximum ==
    \E k \in 1..Len(reversed.val.all) :
        /\ reversed.val.best = Some(reversed.val.all[k])
        /\ reversed.val.similarity = CalculateSimilarity(question, reversed.val.all[k])
        /\ \A m \in 1..Len(reversed.val.all) :
              CalculateSimilarity(question, reversed.val.all[m]) <= reversed.val.similarity
        /\ \A m \in 1..(k - 1) :
              CalculateSimilarity(question, reversed.val.all[m]) < reversed.val.similarity

\* the candidate list only grows at its end while the loop runs
GrowsInAttemptOrder ==
    \/ pc = "reverse_questions"
    \/ reversed_questions' = reversed_questions
    \/ \E text \in CandidateReplies \cup {ApiKeyMissingText, RetriesExhaustedText} :
          reversed_questions' = Append(reversed_questions, text)

\* C9: with at least one candidate, reverse_questions returns the candidate of
\* maximal similarity to the question, the earliest one among equal maxima,
\* with that similarity as the score; the returned candidate is in the
\* returned list, and the list is the candidates in attempt order.
C9_BestCandidate ==
    /\ []((entry = "reverse_questions" /\ reversed.some /\ reversed_questions # <<>>)
             => (BestIsFirstMaximum /\ reversed.val.all = reversed_questions))
    /\ [][GrowsInAttemptOrder]_vars

\* C9 witness: two different candidates tie for the maximum and the earlier
\* one is returned
C9_Witness ==
    /\ entry = "reverse_questions"
    /\ reversed.some
    /\ \E m, n \in 1..Len(reversed.val.all) :
          /\ m < n
          /\ reversed.val.all[m] # reversed.val.all[n]
          /\ CalculateSimilarity(question, reversed.val.all[m]) = reversed.val.similarity
          /\ CalculateSimilarity(question, reversed.val.all[n]) = reversed.val.similarity
          /\ reversed.val.similarity > 0
          /\ reversed.val.best = Some(reversed.val.all[m])

\* the entries whose key occurs in the question while their fact does not
\* occur in the answer
Triggering ==
    {k \in 1..Len(knowledge) :
        /\ IsSubstr(knowledge[k][1], question)
        /\ ~IsSubstr(knowledge[k][2], answer)}

NoConflict == [is_conflict |-> FALSE, info |-> None]

\* C11: check_conflict returns (False, "") whenever the question is empty,
\* whenever the answer is empty, and when both are empty, for every content
\* of the knowledge store.
C11_EmptyArgumentsNoConflict ==
    (entry = "check_conflict" /\ conflict.some /\ (question = <<>> \/ answer = <<>>))
        => conflict.val = NoConflict

\* the answer restates the fact in part: it holds the beginning of the fact
\* text but not the whole of it
PartialRestatement(fact, ans) ==
    /\ ~IsSubstr(fact, ans)
    /\ \E n \in 1..(Len(fact) - 1) : IsSubstr(SubSeq(fact, 1, n), ans)

\* a completed verification whose question names store keys and whose answer
\* restates, in whole or in part, the fact of every key it names, one of
\* them only in part
AnswerRestatesFacts ==
    /\ result.some
    /\ "detection_methods" \in DOMAIN result.val
    /\ \E k \in 1..Len(knowledge) :
          /\ IsSubstr(knowledge[k][1], question)
          /\ PartialRestatement(knowledge[k][2], answer)
    /\ \A k \in 1..Len(knowledge) :
          IsSubstr(knowledge[k][1], question)
              => \/ IsSubstr(knowledge[k][2], answer)
                 \/ PartialRestatement(knowledge[k][2], answer)

\* C12: when the question contains a store key and the answer agrees with the
\* stored fact without containing the fact text verbatim (a partial
\* restatement of it), check_conflict returns (False, "") and
\* check_knowledge_conflict returns a score of at most 0.2.
C12_RestatementIsNoConflict ==
    AnswerRestatesFacts
        => /\ ~result.val.is_knowledge_conflict
           /\ result.val.knowledge_conflict_info = None
           /\ conflict.val = NoConflict
           /\ 10 * result.val.detection_methods["knowledge_conflict"].score <= 2 * Scale

Qualifying(q) == {w \in WordSet(Lower(q)) : Len(w) > 2}

\* the qualifying tokens that occur in the lower-cased answer
QualifyingFound(q, ans) == {w \in Qualifying(q) : IsSubstr(w, Lower(ans))}

\* C14: detect_topic_drift returns 1 - coverage, where coverage is the number
\* of unique lower-case question tokens longer than two characters that occur
\* in the lower-cased answer, divided by the number of unique lower-case
\* question tokens longer than two characters; four qualifying tokens of
\* which two occur in the answer score 0.5 whatever shorter tokens there are.
C14_DriftIsOneMinusCoverage ==
    (entry = "detect_topic_drift" /\ drift.some /\ Qualifying(question) # {})
        => /\ Cardinality(Qualifying(question)) * drift.val
                  = Scale * (Cardinality(Qualifying(question))
                                 - Cardinality(QualifyingFound(question, answer)))
           /\ (/\ Cardinality(Qualifying(question)) = 4
               /\ Cardinality(QualifyingFound(question, answer)) = 2)
                  => drift.val = Scale \div 2

\* C15: detect_topic_drift returns the neutral 0.5 whenever the question has
\* no token longer than two characters: questions of short tokens only,
\* questions without any word character, and the empty question.
C15_NeutralWithoutQualifyingToken ==
    (entry = "detect_topic_drift" /\ drift.some /\ Qualifying(question) = {})
        => drift.val = Scale \div 2

\* the decision of lines 71-75 for a risk score and a similarity under the
\* thresholds th = <<RISK_THRESHOLD, SIMILARITY_CRITICAL>>
DecisionUnder(th, score, sim) ==
    \/ score.num > th[1] * score.den
    \/ (sim.some /\ sim.val < th[2])

\* an evaluation is carried out in this step while no save is in progress
EvaluatedAfterSave ==
    /\ pc = "detect_call"
    /\ pc' = "done"
    /\ settings_pc = "idle"

\* C16: threshold updates are read fresh: once config.set of RISK_THRESHOLD
\* and of SIMILARITY_CRITICAL has completed, every evaluation carried out
\* afterwards decides is_hallucination with the values last saved, for any
\* sequence of saves and evaluations.
C16_ThresholdsReadFresh ==
    [][EvaluatedAfterSave
          => (detection'.val.is_hallucination
                  <=> DecisionUnder(settings, detection'.val.risk_score,
                                    original_similarity))]_vars

\* C16 witness: thresholds other than the initial ones have been saved, and an
\* evaluation has decided with them what the initial ones would not have
\* decided
C16_Witness ==
    /\ entry = "detect_with_all_methods"
    /\ detection.some
    /\ settings_pc = "idle"
    /\ settings # <<DefaultRiskThreshold, DefaultSimilarityCritical>>
    /\ <<config.RISK_THRESHOLD, config.SIMILARITY_CRITICAL>> = settings
    /\ detection.val.is_hallucination
    /\ DecisionUnder(settings, detection.val.risk_score, original_similarity)
    /\ ~DecisionUnder(<<DefaultRiskThreshold, DefaultSimilarityCritical>>,
                      detection.val.risk_score, original_similarity)

\* C17: the thresholds are read-only during one evaluation: a verify_answer
\* call that runs beside save_system_settings decides with the pair
\* (RISK_THRESHOLD, SIMILARITY_CRITICAL) in force when the call was issued,
\* never with a value written after it was issued and never with an old value
\* of one threshold and a new value of the other.  The call is issued under
\* the initial pair.
C17_ThresholdsFixedDuringCall ==
    (entry = "verify_answer" /\ result.some /\ "risk_score" \in DOMAIN result.val)
        => (result.val.is_risk
               <=> DecisionUnder(<<DefaultRiskThreshold, DefaultSimilarityCritical>>,
                                 result.val.risk_score, Some(result.val.similarity)))

\* verify_answer has returned and its call for the answer ended without a
\* generated text: an empty reply, or one of the failure messages of
\* generate_text
AnswerGenerationFailed ==
    /\ entry = "verify_answer"
    /\ result.some
    /\ answer \in {AnswerFailedText, ApiKeyMissingText, RetriesExhaustedText}

\* C18: fail-safe: whenever the collaborator cannot produce an answer for the
\* question (empty output, a non-transient error, retries exhausted),
\* verify_answer returns a result that carries an explicit error marker and
\* is marked high-risk.
C18_FailSafeOnAnswerFailure ==
    AnswerGenerationFailed
        => /\ "error" \in DOMAIN result.val
           /\ result.val.is_risk

\* C19: for every question, and on every path through the pipeline,
\* verify_answer returns a result that contains the keys risk_score and
\* is_risk, with a risk_score that is not None.
C19_ResultHasRiskScore ==
    (entry = "verify_answer" /\ result.some)
        => /\ "risk_score" \in DOMAIN result.val
           /\ "is_risk" \in DOMAIN result.val
           /\ result.val.risk_score # None

\* C20: check_factuality always returns an integer score in the range 1..10
\* together with a rationale, whatever text the collaborator generated.
C20_FactualityScoreInRange ==
    factuality.some
        => /\ factuality.val.score \in 1..10
           /\ factuality.val.reason.tag \in {"unavailable", "parsed", "none_given"}

\* the positions of the reply where a number starts right after the score
\* label, with or without the colon between them
ScoreStarts(t) ==
    {k \in 1..Len(t) :
        /\ t[k] \in Digits
        /\ \/ (k > 2 /\ SubSeq(t, k - 2, k - 1) = ScoreLabel)
           \/ (k > 3 /\ t[k - 1] = Colon /\ SubSeq(t, k - 3, k - 2) = ScoreLabel)}

\* C21: check_factuality defaults the score to 5: when generation fails, or
\* when the generated text holds no score label followed by an integer, the
\* score is 5; when the reason label is absent the rationale is a default
\* placeholder; otherwise the score is the first integer that follows the
\* score label.
C21_FactualityDefaults ==
    (entry = "check_factuality" /\ pc = "done")
        => LET t == generated.val
               starts == ScoreStarts(t)
               first == CHOOSE k \in starts : \A m \in starts : k <= m
           IN /\ factuality.some
              /\ (~generated.ok \/ starts = {}) => factuality.val.score = 5
              /\ ~IsSubstr(ReasonLabel, t)
                     => factuality.val.reason.tag \in {"unavailable", "none_given"}
              /\ IsSubstr(ReasonLabel, t) => factuality.val.reason.tag = "parsed"
              /\ (generated.ok /\ starts # {})
                     => factuality.val.score = ReadInt(t, first, 0)

\* C21 witness: a generated text with a reason and a score label but no
\* number after the label, rated 5
C21_Witness ==
    /\ entry = "check_factuality"
    /\ pc = "done"
    /\ generated.ok
    /\ IsSubstr(ScoreLabel, generated.val)
    /\ ScoreStarts(generated.val) = {}
    /\ factuality.val.score = 5

\* the sum of the weights an evaluation reports in its signals
ReportedWeightSum ==
    SumFn([m \in DOMAIN detection.val.methods |-> detection.val.methods[m].weight],
          DOMAIN detection.val.methods)

\* C22: the applied weights sum to 1.0 after renormalisation: for every
\* combination of supplied and omitted optional signals the weights of the
\* included signals add up to the total the weighted sum is divided by, which
\* is positive; and when all four signals are included the reported weights
\* themselves sum to 1.0.
C22_AppliedWeightsSumToOne ==
    detection.some =>
        /\ detection.val.risk_score.den > 0
        /\ ReportedWeightSum = detection.val.risk_score.den
        /\ Cardinality(DOMAIN detection.val.methods) = 4 => ReportedWeightSum = Scale

\* C22 witness: an evaluation with all four signals, whose divisor is 1.0
C22_Witness ==
    /\ detection.some
    /\ original_similarity.some
    /\ factuality_score.some
    /\ Cardinality(DOMAIN detection.val.methods) = 4
    /\ detection.val.risk_score.den = Scale

\* an evaluation is carried out in this step
Evaluated == pc = "detect_call" /\ pc' = "done"

\* C23: an evaluation has no persistent state: detect_with_all_methods leaves
\* the knowledge store and the threshold configuration unchanged (the weight
\* map is never assigned after construction), and what it returns is
\* determined by the question, the answer, the similarity, the factuality
\* score, the knowledge store and the thresholds alone, so that two
\* evaluations on the same ones return the same signals, risk_score and
\* is_hallucination, whatever was evaluated or saved before.
C23_EvaluationIsPure ==
    [][Evaluated
          => /\ config' = config
             /\ knowledge' = knowledge
             /\ <<question', answer', original_similarity', factuality_score'>>
                    = <<question, answer, original_similarity, factuality_score>>
             /\ detection'.val.methods
                    = DetectionMethods(knowledge, question, answer,
                                       original_similarity, factuality_score)
             /\ detection'.val.risk_score
                    = [num |-> WeightedSum(detection'.val.methods),
                       den |-> TotalWeight(detection'.val.methods)]
             /\ detection'.val.is_hallucination
                    <=> DecisionUnder(<<config.RISK_THRESHOLD, config.SIMILARITY_CRITICAL>>,
                                      detection'.val.risk_score, original_similarity)]_vars

\* C23 witness: an evaluation made under saved thresholds other than the
\* defaults, on a store with an entry, has left both as they were
C23_Witness ==
    /\ entry = "detect_with_all_methods"
    /\ detection.some
    /\ pc = "done"
    /\ knowledge # <<>>
    /\ settings_pc = "idle"
    /\ config.RISK_THRESHOLD # DefaultRiskThreshold
    /\ <<config.RISK_THRESHOLD, config.SIMILARITY_CRITICAL>> = settings
    /\ detection.val.is_hallucination
    /\ ~DecisionUnder(<<DefaultRiskThreshold, DefaultSimilarityCritical>>,
                      detection.val.risk_score, original_similarity)

C25_SimilaritySymmetric ==
    (entry = "calculate_similarity" /\ pc = "done")
        => similarities[1] = similarities[2]

\* C26: for every non-empty text a, calculate_similarity(a, a) is 1.0 within
\* 0.01, texts for which the vectoriser fails included.
C26_SelfSimilarityIsOne ==
    (entry = "calculate_similarity" /\ Len(similarities) > 0
         /\ question = answer /\ question # <<>>)
        => \A k \in 1..Len(similarities) :
              /\ 100 * (Scale - similarities[k]) <= Scale
              /\ 100 * (similarities[k] - Scale) <= Scale

\* C26 witness: a text without a token compared with itself gives 1.0
C26_Witness ==
    /\ entry = "calculate_similarity"
    /\ pc = "done"
    /\ question = answer
    /\ question # <<>>
    /\ VectorizerFails(question, answer)
    /\ similarities = <<Scale, Scale>>

\* C27: a reply whose status is neither 200 nor a transient one ends the
\* generate_text call in the same step: the request that brought it is the
\* last one counted and no wait is added; a reply with status 200 ends the
\* call likewise, and what is returned is a generated text.  Violated: a
\* reply with status 200 whose body cannot be decoded is followed by a wait
\* and another request
C27_FinalReplyEndsCall ==
    [][(pc = "request" /\ status_code' # 0 /\ status_code' \notin TransientStatus)
         => /\ pc' = "done"
            /\ requests' = requests + 1
            /\ waits' = waits
            /\ generated'.some
            /\ generated'.ok = (status_code' = 200)]_vars

\* the HTTP requests the running generate_text call has issued: the answered
\* ones and the one it is waiting for
Issued == requests + (IF pc = "request" THEN 1 ELSE 0)

\* C28: in one generate_text call a transient status on the k-th attempt is
\* followed by a wait of k * 2 seconds, the call never issues more requests
\* than the ceiling (the retries argument, or RETRY_ATTEMPTS), it has ended as
\* soon as the request that reaches the ceiling has failed, and it ends
C28_BoundedRetryLinearBackoff ==
    /\ [][(pc = "request" /\ status_code' \in TransientStatus)
            => waits' = Append(waits, (requests + 1) * 2)]_vars
    /\ [](Issued <= RetryCount)
    /\ []((requests = RetryCount) => (pc = "done"))
    /\ <>(pc = "done")

\* a call that met a transient status on each of three attempts
C28_Witness ==
    /\ pc = "done"
    /\ status_code \in TransientStatus
    /\ RetryCount = 3
    /\ requests = 3
    /\ waits = <<2, 4, 6>>

\* C29: when reverse_questions produced no candidate in verify_answer, the
\* ensemble was handed the similarity 0.0, the result has similarity 0.0 and,
\* SIMILARITY_CRITICAL being greater than 0, is_risk is true, whatever the
\* factuality, topic-drift and knowledge-conflict signals are
C29_NoCandidateIsRisk ==
    (GenerationFailed /\ config.SIMILARITY_CRITICAL > 0)
        => /\ original_similarity = Some(0)
           /\ result.val.similarity = 0
           /\ result.val.is_risk

\* a verification without a candidate whose weighted score stays under the
\* risk threshold: is_risk is true by the special rule alone
C29_Witness ==
    /\ GenerationFailed
    /\ config.SIMILARITY_CRITICAL > 0
    /\ ~AboveRiskThreshold(result.val.risk_score.num, result.val.risk_score.den, config)
    /\ result.val.is_risk

\* C30: no step of the knowledge page (add_knowledge_item,
\* delete_knowledge_item, import_knowledge) changes anything but the entries
\* of the instance of app.py and knowledge.json; the entries of the instance
\* that verify_answer and its detector consult stay those loaded at import
C30_PipelineStoreUntouched ==
    [][/\ knowledge' = knowledge
       /\ (app_knowledge' # app_knowledge \/ knowledge_file' # knowledge_file)
            => /\ knowledge_file' = Some(app_knowledge')
               /\ config' = config
               /\ conflict' = conflict
               /\ pc' = pc]_vars

\* the pipeline checked an answer against its own entries after the page had
\* changed those of app.py: the verdict is not the one the entries of app.py
\* and knowledge.json give
C30_Witness ==
    /\ pc = "done"
    /\ conflict.some
    /\ app_knowledge # knowledge
    /\ knowledge_file = Some(app_knowledge)
    /\ conflict.val = CheckConflict(knowledge, question, answer)
    /\ conflict.val # CheckConflict(app_knowledge, question, answer)

====
